---- MODULE Spec2Model ----
(***************************************************************************)
(* Flash buffered write (fbw): a model of                                  *)
(* subsys/storage/flash_buffered_write/fbw.c.                              *)
(*                                                                         *)
(* The context (struct fbw_ctx), the flash device and the position of the  *)
(* one caller thread are the state.  Every driver call made by the engine  *)
(* is one step, so that a driver error, a failing read-back or a failing   *)
(* verification callback can occur at each place the code can see one.     *)
(***************************************************************************)
EXTENDS Integers, Sequences, FiniteSets, TLC

(***************************************************************************)
(* Bounds of the model.                                                    *)
(***************************************************************************)
\* width of size_t in bits (sums of size_t wrap modulo 2^WordBits)
WordBits == 5
\* largest buf_len passed to fbw_init
MaxBufLen == 3
\* largest len passed to fbw_write
MaxLen == 3
\* how many flash operations and callbacks of one call are counted
MaxOps == 6
\* how many driver calls and callbacks fail on one stream without cause
MaxFaults == 2
\* how many times the caller calls fbw_erase on one stream
MaxEraseCalls == 2
\* period of the byte pattern the caller streams
PatternPeriod == 11

WordMod == 2 ^ WordBits

(***************************************************************************)
(* Error codes (errno values negated at the places that return them).      *)
(***************************************************************************)
EFAULT == 14
ENOMEM == 12
EINVAL == 22
EIO == 5

\* "none yet" of ctx->last_erased_page_start_offset
SENTINEL == -1
\* a byte of erased flash (0xff) and of the zeroed staging buffer
ERASED == 255
ZERO == 0

(***************************************************************************)
(* The flash device: its page layout and what its driver answers.          *)
(***************************************************************************)
\* api->page_layout(): the regions (pages_count, pages_size) of the device
Layout == << [pages_count |-> 1, pages_size |-> 4],
             [pages_count |-> 2, pages_size |-> 2] >>

RECURSIVE SumLayout(_)
\* the loop of fbw_init that adds up pages_count * pages_size
SumLayout(i) ==
    IF i = 0 THEN 0
    ELSE SumLayout(i - 1) + Layout[i].pages_count * Layout[i].pages_size

total_size == SumLayout(Len(Layout))

Cells == 0 .. (total_size - 1)

RECURSIVE PageWalk(_, _, _, _)
\* flash_get_page_info_by_offs(): walk the layout to the page holding off
PageWalk(off, i, k, start) ==
    IF i > Len(Layout) THEN [rc |-> -EINVAL, start_offset |-> 0, size |-> 0]
    ELSE IF k >= Layout[i].pages_count THEN PageWalk(off, i + 1, 0, start)
    ELSE IF off < start + Layout[i].pages_size
         THEN [rc |-> 0, start_offset |-> start, size |-> Layout[i].pages_size]
         ELSE PageWalk(off, i, k + 1, start + Layout[i].pages_size)

flash_get_page_info_by_offs(off) ==
    IF off < 0 THEN [rc |-> -EINVAL, start_offset |-> 0, size |-> 0]
    ELSE PageWalk(off, 1, 0, 0)

\* the start offsets of the pages of the device
PageStarts == { flash_get_page_info_by_offs(c).start_offset : c \in Cells }

\* what a driver call on the range [off, off + n) can return, when it may
\* (can_fail) or may not fail without cause
DriverRcs(off, n, can_fail) ==
    IF off >= 0 /\ off + n <= total_size
    THEN IF can_fail THEN {0, -EIO} ELSE {0}
    ELSE {-EINVAL}

\* flash_erase(): the cells of [off, off + n) read 0xff
Erase(f, off, n) ==
    [c \in Cells |-> IF c >= off /\ c < off + n THEN ERASED ELSE f[c]]

\* flash_write(): the first n bytes of b land at off
Program(f, off, b, n) ==
    [c \in Cells |-> IF c >= off /\ c < off + n THEN b[c - off + 1] ELSE f[c]]

\* flash_read(): the first n bytes of b are the cells of [off, off + n)
ReadInto(f, off, b, n) ==
    [i \in 1 .. Len(b) |-> IF i <= n THEN f[off + i - 1] ELSE b[i]]

\* the count of the failures without cause, after a driver call returned r
Faulted(n, r) == IF r = -EIO THEN n + 1 ELSE n

\* what the verification callback can return
HookRcs(can_fail) == IF can_fail THEN {0, -EFAULT, 1} ELSE {0}

(***************************************************************************)
(* The caller's data: the byte at position k of the stream.                *)
(***************************************************************************)
Pattern(k) == 1 + (k % PatternPeriod)

VARIABLES
    ctx,                \* struct fbw_ctx
    flash,              \* the content of the flash device
    wp,                 \* write protection of the device is on
    erase_enabled,      \* CONFIG_FBW_ERASE
    write_block_size,   \* api->write_block_size
    pc,                 \* where the caller is
    fr,                 \* the frame of the running call (arguments, locals)
    ret,                \* the last call that returned and its value
    pre,                \* the counters and the arguments at the call's start
    cm,                 \* the record of the most recent commit (flash_sync)
    nops,               \* flash operations and callbacks issued by the call
    after_fail,         \* the call went on after one of its commits failed
    erase_calls,        \* the caller's calls of fbw_erase so far
    faults,             \* the driver errors and callback failures so far
    pristine,           \* the stream began erased and nothing has failed
    commits,            \* the runs of flash_sync the call has started
    erases              \* the pages on which the stream has had a flash erase

vars == << ctx, flash, wp, erase_enabled, write_block_size, pc, fr, ret, pre,
           cm, nops, after_fail, erase_calls, faults, pristine, commits,
           erases >>


(***************************************************************************)
(* Values of the state between calls.                                      *)
(***************************************************************************)
\* memset(&ctx, 0, sizeof(ctx)) of the caller before fbw_init
ZeroCtx ==
    [ fdev |-> "NULL", buf |-> << >>, buf_len |-> 0, bytes_written |-> 0,
      buf_bytes |-> 0, offset |-> 0, available |-> 0, callback |-> FALSE,
      last_erased_page_start_offset |-> 0 ]

\* no call has returned since the running one began
NoRet == [op |-> "none", rc |-> 0]

NoFrame ==
    [ len |-> 0, flush |-> FALSE, processed |-> 0, buf_empty_bytes |-> 0,
      pos0 |-> 0, rc |-> 0, site |-> "none", esite |-> "none", off |-> 0,
      page |-> [start_offset |-> 0, size |-> 0], failed |-> FALSE ]

NoArgs ==
    [ ctx_ok |-> TRUE, fdev_ok |-> TRUE, buf_ok |-> TRUE, data_ok |-> TRUE,
      buf_len |-> 0, offset |-> 0, size |-> 0, cb |-> FALSE,
      len |-> 0, flush |-> FALSE, off |-> 0 ]

NoCommit ==
    [ active |-> FALSE, done |-> FALSE, full |-> FALSE,
      bw0 |-> 0, bb0 |-> 0,
      w_issued |-> FALSE, w_ok |-> FALSE, w_off |-> 0, w_len |-> 0,
      r_ok |-> FALSE,
      hooks |-> 0, hook_len |-> 0, hook_off |-> 0, hook_buf_ok |-> FALSE,
      hook_after_read |-> FALSE,
      fail |-> "none", frc |-> 0 ]

\* what is kept of a call's start: the counters and the arguments
Snapshot(c, a) ==
    [ bytes_written |-> c.bytes_written, buf_bytes |-> c.buf_bytes, a |-> a ]

\* the record of a commit that starts on context c
NewCommit(c, full) ==
    [ NoCommit EXCEPT !.active = TRUE, !.full = full,
                      !.bw0 = c.bytes_written, !.bb0 = c.buf_bytes ]

Bump(n) == IF n < MaxOps THEN n + 1 ELSE n

\* no page has been erased on the stream
NoErases == {}

\* one more flash erase was issued on the page that starts at p
Erased(e, p) == e \cup {p}

ProtectAfter_mut(r) == (r = 0)

\* flash_write_protection_set(true) follows the driver call whatever it
\* returned
ProtectAfter(r) == TRUE

Initialised == ctx.fdev # "NULL"

(***************************************************************************)
(* fbw_init                                                                *)
(***************************************************************************)
\* "if (buf_len > layout->pages_size)" for one of the regions
BufTooBig(buf_len) ==
    \E i \in 1 .. Len(Layout) : buf_len > Layout[i].pages_size

\* "(offset + size) > total_size", the sum formed in size_t
BadRange(offset, size) == ((offset + size) % WordMod) > total_size

\* "offset % api->write_block_size"
Misaligned(offset, wbs) == (offset % wbs) # 0

InitAvailable_mut(offset, size) == (total_size - offset) % WordMod

\* "ctx->available = (size == 0 ? total_size - offset : size)"
InitAvailable(offset, size) ==
    IF size = 0 THEN (total_size - offset) % WordMod ELSE size

\* the value fbw_init returns
InitRc(a, wbs) ==
    IF ~a.ctx_ok \/ ~a.fdev_ok \/ ~a.buf_ok THEN -EFAULT
    ELSE IF BufTooBig(a.buf_len) THEN -EFAULT
    ELSE IF BadRange(a.offset, a.size) \/ Misaligned(a.offset, wbs) THEN -EFAULT
    ELSE 0

\* the assignments of fbw_init to *ctx; the staging buffer is the caller's,
\* zeroed as init_target leaves it; the bookmark exists under CONFIG_FBW_ERASE
InitCtx(c, a, ee) ==
    [ fdev |-> "fdev",
      buf |-> [i \in 1 .. a.buf_len |-> ZERO],
      buf_len |-> a.buf_len,
      bytes_written |-> 0,
      buf_bytes |-> 0,
      offset |-> a.offset,
      available |-> InitAvailable(a.offset, a.size),
      callback |-> a.cb,
      last_erased_page_start_offset |->
          IF ee THEN SENTINEL ELSE c.last_erased_page_start_offset ]

\* the cells of the stream's region that exist all read erased
RegionErased(c, f) ==
    \A x \in Cells :
        (x >= c.offset /\ x < c.offset + c.available) => f[x] = ERASED

BufLenArgs == 0 .. MaxBufLen
\* aligned to every write block size, to none but 1, and the second page
OffsetArgs == {0, 1, 4}
\* the rest of the device, the first page, a size too large from offset 4,
\* and a size whose sum with the offset wraps
SizeArgs == {0, 4, 5, WordMod - 2}

\* fbw_init(ctx, fdev, buf, buf_len, offset, size, cb), and the three calls
\* of test_fbw_init that pass NULL
InitArgs ==
    { [NoArgs EXCEPT !.buf_len = bl, !.offset = o, !.size = s, !.cb = cb] :
        bl \in BufLenArgs, o \in OffsetArgs, s \in SizeArgs, cb \in BOOLEAN }
    \cup { [NoArgs EXCEPT !.ctx_ok = FALSE, !.buf_len = 2],
           [NoArgs EXCEPT !.fdev_ok = FALSE, !.buf_len = 2],
           [NoArgs EXCEPT !.buf_ok = FALSE, !.buf_len = 2] }

fbw_init(a) ==
    /\ pc = "idle"
    /\ LET rc == InitRc(a, write_block_size) IN
        /\ ctx' = IF rc = 0 THEN InitCtx(ctx, a, erase_enabled) ELSE ctx
        /\ ret' = [op |-> "init", rc |-> rc]
        /\ pristine' = IF rc = 0
                       THEN RegionErased(InitCtx(ctx, a, erase_enabled), flash)
                       ELSE pristine
    /\ pre' = Snapshot(ctx, a)
    /\ cm' = NoCommit
    /\ nops' = 0
    /\ after_fail' = FALSE
    /\ erase_calls' = 0
    /\ faults' = 0
    /\ commits' = 0
    /\ erases' = NoErases
    /\ UNCHANGED << flash, wp, erase_enabled, write_block_size, pc, fr >>

(***************************************************************************)
(* fbw_bytes_written: an observer, it changes nothing                      *)
(***************************************************************************)
fbw_bytes_written(c) == c.bytes_written

(***************************************************************************)
(* Leaving a call, and leaving flash_sync.                                 *)
(***************************************************************************)
\* the running call returns r to the caller
Returns(op, r) ==
    /\ pc' = "idle"
    /\ fr' = NoFrame
    /\ ret' = [op |-> op, rc |-> r]
    /\ pristine' = (pristine /\ op = "write" /\ r = 0)

LoopAbort_mut(rc) == rc < 0

\* "if (rc != 0) { return rc; }" after the flash_sync of the loop
LoopAbort(rc) == rc # 0

\* flash_sync returns r: into the loop of fbw_write, or to the final return
SyncReturns(r, failed) ==
    IF fr.site = "loop" /\ ~LoopAbort(r)
    THEN /\ pc' = "loop"
         /\ fr' = [fr EXCEPT !.processed = @ + fr.buf_empty_bytes,
                             !.rc = r, !.failed = @ \/ failed]
         /\ UNCHANGED << ret, pristine >>
    ELSE Returns("write", r)

\* "write_addr = ctx->offset + ctx->bytes_written"
WriteAddr(c) == (c.offset + c.bytes_written) % WordMod

\* flash_sync begins: the frame of its call of fbw_erase, or none
EnterSync(c, f, site) ==
    [ f EXCEPT !.site = site, !.esite = "sync",
               !.off = (WriteAddr(c) + c.buf_bytes) % WordMod ]

\* IS_ENABLED(CONFIG_FBW_ERASE) at the head of flash_sync
SyncPc == IF erase_enabled THEN "erase" ELSE "write"

SyncAdvance_mut(c) ==
    [c EXCEPT !.bytes_written = (@ + c.buf_len) % WordMod, !.buf_bytes = 0]

\* "ctx->bytes_written += ctx->buf_bytes; ctx->buf_bytes = 0U;"
SyncAdvance(c) ==
    [c EXCEPT !.bytes_written = (@ + c.buf_bytes) % WordMod, !.buf_bytes = 0]

(***************************************************************************)
(* fbw_write                                                               *)
(***************************************************************************)
NoSpace_mut(c, len) == ((c.bytes_written + len) % WordMod) > c.available

NoSpaceNoLen_mut(c, len) ==
    ((c.bytes_written + c.buf_bytes) % WordMod) > c.available

\* "ctx->bytes_written + ctx->buf_bytes + len > ctx->available"
NoSpace(c, len) ==
    ((c.bytes_written + c.buf_bytes + len) % WordMod) > c.available

BufEmptyBytes_mut(c) == c.buf_len

\* "buf_empty_bytes = ctx->buf_len - ctx->buf_bytes"
BufEmptyBytes(c) == (c.buf_len - c.buf_bytes) % WordMod

LoopCond_mut(c, f) == ((f.len - f.processed) % WordMod) > BufEmptyBytes(c)

\* "(len - processed) >= buf_empty_bytes", compared as size_t
LoopCond(c, f) == ((f.len - f.processed) % WordMod) >= BufEmptyBytes(c)

Fill_mut(c, f, n) ==
    [i \in 1 .. Len(c.buf) |->
        IF i > c.buf_bytes /\ i <= c.buf_bytes + n
        THEN Pattern(f.pos0 + (i - c.buf_bytes - 1))
        ELSE c.buf[i]]

\* "memcpy(ctx->buf + ctx->buf_bytes, data + processed, n)"
Fill(c, f, n) ==
    [i \in 1 .. Len(c.buf) |->
        IF i > c.buf_bytes /\ i <= c.buf_bytes + n
        THEN Pattern(f.pos0 + f.processed + (i - c.buf_bytes - 1))
        ELSE c.buf[i]]

\* fbw_write(ctx, data, len, flush), and one call that passes data = NULL
WriteArgs ==
    { [NoArgs EXCEPT !.len = n, !.flush = fl] :
        n \in 0 .. MaxLen, fl \in BOOLEAN }
    \cup { [NoArgs EXCEPT !.data_ok = FALSE, !.len = 1] }

\* entry of fbw_write: the argument check and the space check
fbw_write(a) ==
    /\ pc = "idle"
    /\ Initialised
    /\ pre' = Snapshot(ctx, a)
    /\ cm' = NoCommit
    /\ nops' = 0
    /\ after_fail' = FALSE
    /\ IF ~a.data_ok THEN Returns("write", -EFAULT)
       ELSE IF NoSpace(ctx, a.len) THEN Returns("write", -ENOMEM)
       ELSE /\ pc' = "loop"
            /\ fr' = [NoFrame EXCEPT !.len = a.len, !.flush = a.flush,
                                     !.pos0 = ctx.bytes_written + ctx.buf_bytes]
            /\ ret' = NoRet
            /\ UNCHANGED pristine
    /\ commits' = 0
    /\ UNCHANGED << ctx, flash, wp, erase_enabled, write_block_size,
                    erase_calls, faults, erases >>

\* one pass of the while loop: fill the buffer, then flash_sync
WriteLoop ==
    /\ pc = "loop"
    /\ LoopCond(ctx, fr)
    /\ LET n == BufEmptyBytes(ctx)
           c == [ctx EXCEPT !.buf = Fill(ctx, fr, n), !.buf_bytes = ctx.buf_len]
       IN /\ ctx' = c
          /\ fr' = [EnterSync(c, fr, "loop") EXCEPT !.buf_empty_bytes = n]
          /\ cm' = NewCommit(c, TRUE)
    /\ pc' = SyncPc
    /\ commits' = Bump(commits)
    /\ UNCHANGED << flash, wp, erase_enabled, write_block_size, ret, pre, nops,
                    after_fail, erase_calls, faults, pristine, erases >>

\* after the loop: keep the rest, then flush if asked to
WriteTail ==
    /\ pc = "loop"
    /\ ~LoopCond(ctx, fr)
    /\ LET n == fr.len - fr.processed
           c == IF fr.processed < fr.len
                THEN [ctx EXCEPT !.buf = Fill(ctx, fr, n),
                                 !.buf_bytes = @ + n]
                ELSE ctx
       IN /\ ctx' = c
          /\ IF fr.flush /\ c.buf_bytes > 0
             THEN /\ pc' = SyncPc
                  /\ fr' = EnterSync(c, fr, "flush")
                  /\ cm' = NewCommit(c, FALSE)
                  /\ commits' = Bump(commits)
                  /\ UNCHANGED << ret, pristine >>
             ELSE /\ Returns("write", fr.rc)
                  /\ UNCHANGED << cm, commits >>
    /\ UNCHANGED << flash, wp, erase_enabled, write_block_size, pre, nops,
                    after_fail, erase_calls, faults, erases >>

(***************************************************************************)
(* fbw_erase, called by flash_sync and by the caller                       *)
(***************************************************************************)
\* fbw_erase returns r: to the caller, or into flash_sync
EraseReturns(r) ==
    IF fr.esite = "call" THEN Returns("erase", r) /\ UNCHANGED cm
    ELSE IF r < 0
         THEN /\ SyncReturns(r, FALSE)
              /\ cm' = [cm EXCEPT !.fail = "erase", !.frc = r]
         ELSE /\ pc' = "write"
              /\ UNCHANGED << fr, ret, pristine, cm >>

\* offsets of the caller's fbw_erase: two pages, two offsets of one page, and
\* the first offset past the device
EraseArgs == { [NoArgs EXCEPT !.off = o] : o \in {0, 1, 4, total_size} }

\* the caller calls fbw_erase(ctx, off)
fbw_erase(a) ==
    /\ pc = "idle"
    /\ erase_enabled
    /\ Initialised
    /\ erase_calls < MaxEraseCalls
    /\ pc' = "erase"
    /\ fr' = [NoFrame EXCEPT !.esite = "call", !.off = a.off]
    /\ pre' = Snapshot(ctx, a)
    /\ cm' = NoCommit
    /\ nops' = 0
    /\ after_fail' = FALSE
    /\ pristine' = FALSE
    /\ erase_calls' = erase_calls + 1
    /\ ret' = NoRet
    /\ commits' = 0
    /\ UNCHANGED << ctx, flash, wp, erase_enabled, write_block_size, faults,
                    erases >>

SamePage_mut(c, page) == FALSE

\* the already-erased test of fbw_erase
SamePage(c, page) == c.last_erased_page_start_offset = page.start_offset

\* fbw_erase up to flash_write_protection_set(false)
EraseBegin ==
    /\ pc = "erase"
    /\ LET page == flash_get_page_info_by_offs(fr.off) IN
        IF page.rc # 0
        THEN EraseReturns(page.rc) /\ UNCHANGED << ctx, wp >>
        ELSE IF SamePage(ctx, page)
        THEN EraseReturns(0) /\ UNCHANGED << ctx, wp >>
        ELSE /\ ctx' = [ctx EXCEPT !.last_erased_page_start_offset =
                                        page.start_offset]
             /\ wp' = FALSE
             /\ pc' = "erasing"
             /\ fr' = [fr EXCEPT !.page = [start_offset |-> page.start_offset,
                                           size |-> page.size]]
             /\ UNCHANGED << ret, pristine, cm >>
    /\ UNCHANGED << flash, erase_enabled, write_block_size, pre, nops,
                    after_fail, erase_calls, faults, commits, erases >>

\* flash_erase answers; flash_write_protection_set(true); return
EraseDone ==
    /\ pc = "erasing"
    /\ \E r \in DriverRcs(fr.page.start_offset, fr.page.size,
                         faults < MaxFaults) :
        /\ faults' = Faulted(faults, r)
        /\ flash' = IF r = 0
                    THEN Erase(flash, fr.page.start_offset, fr.page.size)
                    ELSE flash
        /\ EraseReturns(r)
        /\ wp' = ProtectAfter(r)
    /\ erases' = Erased(erases, fr.page.start_offset)
    /\ nops' = Bump(nops)
    /\ after_fail' = (after_fail \/ fr.failed)
    /\ UNCHANGED << ctx, erase_enabled, write_block_size, pre, erase_calls,
                    commits >>

(***************************************************************************)
(* flash_sync after its call of fbw_erase                                  *)
(***************************************************************************)
\* flash_write_protection_set(false) before flash_write
WriteBegin ==
    /\ pc = "write"
    /\ wp' = FALSE
    /\ pc' = "writing"
    /\ UNCHANGED << ctx, flash, erase_enabled, write_block_size, fr, ret, pre,
                    cm, nops, after_fail, erase_calls, faults, pristine,
                    commits, erases >>

\* flash_write answers; flash_write_protection_set(true); then the
\* callback-less tail of flash_sync
WriteDone ==
    /\ pc = "writing"
    /\ \E r \in DriverRcs(WriteAddr(ctx), ctx.buf_bytes, faults < MaxFaults) :
        LET w == [cm EXCEPT !.w_issued = TRUE, !.w_ok = (r = 0),
                            !.w_off = WriteAddr(ctx), !.w_len = ctx.buf_bytes]
        IN
        /\ faults' = Faulted(faults, r)
        /\ flash' = IF r = 0
                    THEN Program(flash, WriteAddr(ctx), ctx.buf, ctx.buf_bytes)
                    ELSE flash
        /\ IF r # 0
           THEN /\ cm' = [w EXCEPT !.fail = "write", !.frc = r]
                /\ SyncReturns(r, TRUE)
                /\ UNCHANGED ctx
           ELSE IF ctx.callback
           THEN /\ cm' = w
                /\ pc' = "read"
                /\ UNCHANGED << ctx, fr, ret, pristine >>
           ELSE /\ cm' = [w EXCEPT !.done = TRUE]
                /\ ctx' = SyncAdvance(ctx)
                /\ SyncReturns(r, FALSE)
        /\ wp' = ProtectAfter(r)
    /\ nops' = Bump(nops)
    /\ after_fail' = (after_fail \/ fr.failed)
    /\ UNCHANGED << erase_enabled, write_block_size, pre, erase_calls,
                    commits, erases >>

\* flash_read of the bytes just written, into the staging buffer
ReadBack ==
    /\ pc = "read"
    /\ \E r \in DriverRcs(WriteAddr(ctx), ctx.buf_bytes, faults < MaxFaults) :
        /\ faults' = Faulted(faults, r)
        /\ IF r # 0
           THEN /\ cm' = [cm EXCEPT !.fail = "read", !.frc = r]
                /\ SyncReturns(r, TRUE)
                /\ UNCHANGED ctx
           ELSE /\ cm' = [cm EXCEPT !.r_ok = TRUE]
                /\ ctx' = [ctx EXCEPT !.buf = ReadInto(flash, WriteAddr(ctx),
                                                       ctx.buf, ctx.buf_bytes)]
                /\ pc' = "hook"
                /\ UNCHANGED << fr, ret, pristine >>
    /\ nops' = Bump(nops)
    /\ after_fail' = (after_fail \/ fr.failed)
    /\ UNCHANGED << flash, wp, erase_enabled, write_block_size, pre,
                    erase_calls, commits, erases >>

\* the buffer handed to the callback holds what the flash holds
BufIsFlash(c, f) ==
    \A i \in 1 .. c.buf_bytes :
        (WriteAddr(c) + i - 1) \in Cells /\ c.buf[i] = f[WriteAddr(c) + i - 1]

HookArgs_mut(c) == [len |-> c.buf_len, offset |-> WriteAddr(c)]

\* the length and offset of "ctx->callback(ctx->buf, ctx->buf_bytes, write_addr)"
HookArgs(c) == [len |-> c.buf_bytes, offset |-> WriteAddr(c)]

\* ctx->callback(ctx->buf, ctx->buf_bytes, write_addr) answers; the counters
\* advance; return rc
Hook ==
    /\ pc = "hook"
    /\ \E r \in HookRcs(faults < MaxFaults) :
        /\ faults' = IF r # 0 THEN faults + 1 ELSE faults
        /\ cm' = [cm EXCEPT !.hooks = @ + 1,
                            !.hook_len = HookArgs(ctx).len,
                            !.hook_off = HookArgs(ctx).offset,
                            !.hook_buf_ok = BufIsFlash(ctx, flash),
                            !.hook_after_read = cm.w_ok /\ cm.r_ok,
                            !.fail = IF r # 0 THEN "hook" ELSE "none",
                            !.frc = r,
                            !.done = (r = 0)]
        /\ SyncReturns(r, r # 0)
    /\ ctx' = SyncAdvance(ctx)
    /\ nops' = Bump(nops)
    /\ after_fail' = (after_fail \/ fr.failed)
    /\ UNCHANGED << flash, wp, erase_enabled, write_block_size, pre,
                    erase_calls, commits, erases >>

(***************************************************************************)
(* The specification                                                       *)
(***************************************************************************)
\* the calls of fbw_init that open the streams followed here
StreamArgs == { a \in InitArgs : a.size \in {0, 4, WordMod - 2} }

\* the device and the build, before any call
Boot ==
    /\ flash = [c \in Cells |-> ERASED]
    /\ wp = TRUE
    /\ erase_enabled \in BOOLEAN
    /\ write_block_size \in {1, 2}
    /\ pc = "idle"
    /\ fr = NoFrame
    /\ cm = NoCommit
    /\ nops = 0
    /\ after_fail = FALSE
    /\ erase_calls = 0
    /\ faults = 0
    /\ commits = 0
    /\ erases = NoErases

\* a stream: the state after init_target, i.e. a zeroed context and an erased
\* device on which fbw_init has succeeded
Init ==
    /\ Boot
    /\ write_block_size = 2
    /\ \E a \in StreamArgs :
        /\ InitRc(a, write_block_size) = 0
        /\ ctx = InitCtx(ZeroCtx, a, erase_enabled)
        /\ pre = Snapshot(ZeroCtx, a)
    /\ ret = [op |-> "init", rc |-> 0]
    /\ pristine = TRUE

Next ==
    \/ \E a \in WriteArgs : fbw_write(a)
    \/ \E a \in EraseArgs : fbw_erase(a)
    \/ WriteLoop
    \/ WriteTail
    \/ EraseBegin
    \/ EraseDone
    \/ WriteBegin
    \/ WriteDone
    \/ ReadBack
    \/ Hook

Spec == Init /\ [][Next]_vars

\* the steps of a call that is running: the caller's thread takes them one
\* after the other, and every driver call and the callback return
Running ==
    \/ WriteLoop
    \/ WriteTail
    \/ EraseBegin
    \/ EraseDone
    \/ WriteBegin
    \/ WriteDone
    \/ ReadBack
    \/ Hook

\* a stream on which a call that has begun goes on running
FairSpec == Spec /\ WF_vars(Running)

\* initialisation alone: a zeroed context, and calls of fbw_init on it and on
\* the contexts they leave
InitInit ==
    /\ Boot
    /\ ctx = ZeroCtx
    /\ pre = Snapshot(ZeroCtx, NoArgs)
    /\ ret = NoRet
    /\ pristine = FALSE

NextInit == \E a \in InitArgs : fbw_init(a)

SpecInit == InitInit /\ [][NextInit]_vars


(***************************************************************************)
(* Properties                                                              *)
(***************************************************************************)
\* a call of fbw_write has returned, and nothing was called since
WriteReturned == pc = "idle" /\ ret.op = "write"

\* the most recent commit has ended (flash_sync has returned)
CommitEnded == cm.active /\ pc \in {"idle", "loop"}

\* C1: when a commit fails because flash_write, the read-back or the callback
\* returned non-zero, bytes_written and buf_bytes are what they were when the
\* commit started.
FailureContainment ==
    (WriteReturned /\ cm.fail \in {"write", "read", "hook"})
        => (ctx.bytes_written = cm.bw0 /\ ctx.buf_bytes = cm.bb0)

\* C2: every flash write issued has an offset and a length that are multiples
\* of the write block size, and offset + bytes_written is always such a
\* multiple.
Alignment ==
    /\ (ctx.offset + ctx.bytes_written) % write_block_size = 0
    /\ cm.w_issued => /\ cm.w_off % write_block_size = 0
                      /\ cm.w_len % write_block_size = 0

\* C3: on a region that began erased, after successful writes only and no
\* fbw_erase by the caller, the flash holds the first bytes_written bytes of
\* the stream at the stream's offset, in order, and the staging buffer holds
\* the next buf_bytes bytes.
StreamFidelity ==
    (pc = "idle" /\ pristine) =>
        /\ \A i \in 0 .. (ctx.bytes_written - 1) :
            /\ (ctx.offset + i) \in Cells
            /\ flash[ctx.offset + i] = Pattern(i)
        /\ \A i \in 1 .. ctx.buf_bytes :
            ctx.buf[i] = Pattern(ctx.bytes_written + i - 1)

\* a stream of several commits, one of them a flushed partial buffer, with a
\* byte left in the staging buffer, under the erase policy
StreamFidelityWitness ==
    /\ pc = "idle" /\ pristine /\ erase_enabled
    /\ ctx.buf_len = 2 /\ ctx.bytes_written = 5 /\ ctx.buf_bytes = 1
    /\ ctx.last_erased_page_start_offset = 4

\* C4: a write that returns success leaves bytes_written + buf_bytes larger
\* by exactly len.
ByteConservation ==
    (WriteReturned /\ ret.rc = 0) =>
        ctx.bytes_written + ctx.buf_bytes
            = pre.bytes_written + pre.buf_bytes + pre.a.len

\* a successful write of 3 bytes with flush, onto one buffered byte
ByteConservationWitness ==
    /\ WriteReturned /\ ret.rc = 0
    /\ pre.a.len = 3 /\ pre.a.flush /\ pre.buf_bytes = 1
    /\ ctx.bytes_written = pre.bytes_written + 4

\* C5: between calls, bytes_written + buf_bytes <= available, also after
\* commits that failed.
Capacity ==
    pc = "idle" => ctx.bytes_written + ctx.buf_bytes <= ctx.available

\* a failed commit returned with the stream filled to its capacity
CapacityWitness ==
    /\ WriteReturned /\ cm.fail \in {"write", "read", "hook"}
    /\ ctx.bytes_written + ctx.buf_bytes = ctx.available

\* C6: a write for which bytes_written + buf_bytes + len > available returns
\* -ENOMEM at once: no flash operation, no callback, and the context and the
\* flash are unchanged; the flush flag makes no difference.
\* (A step from "idle" to "idle" or "loop" is the entry of fbw_write, whose
\* arguments are pre'.a.)
NoSpaceRejection ==
    [][ ( /\ pc = "idle"
          /\ pc' \in {"idle", "loop"}
          /\ pre'.a.data_ok
          /\ ctx.bytes_written + ctx.buf_bytes + pre'.a.len > ctx.available )
        => ( /\ pc' = "idle"
             /\ ret' = [op |-> "write", rc |-> -ENOMEM]
             /\ nops' = 0
             /\ ctx' = ctx
             /\ flash' = flash
             /\ wp' = wp ) ]_vars

\* a flushing write was rejected with bytes in the staging buffer
NoSpaceRejectionWitness ==
    /\ WriteReturned /\ ret.rc = -ENOMEM
    /\ pre.a.flush /\ ctx.buf_bytes > 0 /\ pre.a.len > 0
    /\ ctx.bytes_written + pre.a.len <= ctx.available

\* C7: when a commit inside write fails (flash_write, read-back or callback
\* non-zero), write returns that value, and the call issues no flash
\* operation and no callback after the failure.
ErrorPropagation ==
    /\ ~after_fail
    /\ (WriteReturned /\ cm.fail \in {"write", "read", "hook"})
        => ret.rc = cm.frc
    /\ ~fr.failed

\* the callback returned a positive value while input was left unconsumed
ErrorPropagationWitness ==
    /\ WriteReturned /\ cm.fail = "hook" /\ ret.rc = 1
    /\ ctx.bytes_written + ctx.buf_bytes
        < pre.bytes_written + pre.buf_bytes + pre.a.len

\* C8 as stated: the callback runs exactly once for every flash write that
\* succeeded, with the length written and the offset base + bytes_written
\* before the commit, and never for a commit whose flash write failed.
HookFidelityAsStated ==
    (ctx.callback /\ CommitEnded) =>
        IF cm.w_ok
        THEN /\ cm.hooks = 1
             /\ cm.hook_len = cm.w_len
             /\ cm.hook_off = ctx.offset + cm.bw0
        ELSE cm.hooks = 0

\* C8 amended: the callback runs exactly once for every commit whose flash
\* write and read-back both succeeded, after them, on a buffer that holds the
\* flash content, with the length written and the offset base +
\* bytes_written before the commit; it never runs for a commit whose flash
\* write or read-back failed, nor when no callback is installed.
HookFidelity ==
    /\ cm.hooks <= 1
    /\ cm.hooks = 1 =>
        /\ ctx.callback /\ cm.w_ok /\ cm.r_ok
        /\ cm.hook_after_read /\ cm.hook_buf_ok
        /\ cm.hook_len = cm.w_len
        /\ cm.hook_len = cm.bb0
        /\ cm.hook_off = ctx.offset + cm.bw0
    /\ (ctx.callback /\ CommitEnded /\ cm.w_ok /\ cm.r_ok) => cm.hooks = 1

\* the callback ran on a flushed partial buffer of a stream at offset 4
HookFidelityWitness ==
    /\ CommitEnded /\ cm.hooks = 1 /\ ~cm.full
    /\ cm.hook_len = 1 /\ ctx.buf_len = 2 /\ ctx.offset = 4 /\ cm.bw0 = 2

\* C9: fbw_init fails whenever offset + size exceeds the size of the device,
\* so that after a successful fbw_init offset + available <= total_size.
InitRangeCheck ==
    /\ (ret.op = "init" /\ pre.a.offset + pre.a.size > total_size)
        => ret.rc = -EFAULT
    /\ (ret.op = "init" /\ ret.rc = 0)
        => ctx.offset + ctx.available <= total_size

\* the conditions C10 names for fbw_init to fail
InitNamedFailure(a) ==
    \/ ~a.ctx_ok \/ ~a.fdev_ok \/ ~a.buf_ok
    \/ a.offset % write_block_size # 0
    \/ \E i \in 1 .. Len(Layout) : a.buf_len > Layout[i].pages_size

\* what C10 says of a fbw_init that fails
InitFails == ret'.rc = -EFAULT /\ ctx' = ctx

\* what C10 says of a fbw_init that succeeds
InitSucceeds(a) ==
    /\ ret'.rc = 0
    /\ ctx'.bytes_written = 0
    /\ ctx'.buf_bytes = 0
    /\ erase_enabled => ctx'.last_erased_page_start_offset = SENTINEL
    /\ ctx'.available = IF a.size # 0 THEN a.size ELSE total_size - a.offset
    /\ ctx'.buf_len = a.buf_len /\ ctx'.offset = a.offset
    /\ ctx'.callback = a.cb

\* C10 as stated: fbw_init fails with -EFAULT and leaves the context
\* untouched when a pointer is NULL, the offset is misaligned or buf_len
\* exceeds a page size; otherwise it succeeds and sets the fields.
InitEffectsAsStated ==
    [][ ret'.op = "init" =>
            IF InitNamedFailure(pre'.a) THEN InitFails
            ELSE InitSucceeds(pre'.a) ]_vars

\* C10 amended: fbw_init also fails, leaving the context untouched, when
\* offset + size, formed in size_t, exceeds the size of the device;
\* otherwise it succeeds and sets the fields.
InitEffects ==
    [][ ret'.op = "init" =>
            IF \/ InitNamedFailure(pre'.a)
               \/ (pre'.a.offset + pre'.a.size) % WordMod > total_size
            THEN InitFails
            ELSE InitSucceeds(pre'.a) ]_vars

\* fbw_init failed on a context that an earlier fbw_init had set up, because
\* buf_len fits the pages of the first region only
InitEffectsWitness ==
    /\ ret = [op |-> "init", rc |-> -EFAULT]
    /\ pre.a.buf_len = 3 /\ pre.a.size = 0 /\ pre.a.offset = 0
    /\ ctx.fdev = "fdev" /\ ctx.available = 4 /\ ctx.offset = 4

\* the caller's fbw_erase has returned, and nothing was called since
EraseReturned == pc = "idle" /\ ret.op = "erase"

\* every byte of the page that holds off reads erased
PageErased(f, off) ==
    LET page == flash_get_page_info_by_offs(off) IN
    \A c \in Cells :
        (c >= page.start_offset /\ c < page.start_offset + page.size)
            => f[c] = ERASED

\* C11: whenever the caller's fbw_erase(ctx, off) returns 0, also directly
\* after a write that committed data into that page, every byte of the page
\* that holds off reads 0xff.
ErasePostcondition ==
    (EraseReturned /\ ret.rc = 0) => PageErased(flash, pre.a.off)

\* C12 as stated: over any sequence of fbw_write and fbw_erase calls on one
\* stream, at most one flash erase is issued for any page.
\* (At "erasing" the flash_erase of fr.page is being issued; erases holds the
\* pages of the flash erases issued before it.)
EraseOnceAsStated == (pc = "erasing") => fr.page.start_offset \notin erases

\* C12 amended: over any sequence of fbw_write calls (flushing or not) on one
\* stream in which the caller never calls fbw_erase, at most one flash erase
\* is issued for any page.
EraseOnce ==
    (pc = "erasing" /\ erase_calls = 0) => fr.page.start_offset \notin erases

\* every page of the device was erased by the commits of one stream, the
\* last of them after the first page had been left behind
EraseOnceWitness ==
    /\ erase_calls = 0 /\ pc = "idle"
    /\ erases = PageStarts
    /\ ctx.bytes_written >= 6

\* C13: with write protection on when the stream is initialised, it is on in
\* every state in which a call returns, it is off only for the duration of
\* one flash_erase or flash_write, and it is on during every read-back and
\* every callback.
ScopedWriteProtect == wp <=> pc \notin {"erasing", "writing"}

\* a call returned a driver error of flash_write, after a flash_erase of the
\* same commit had succeeded
ScopedWriteProtectWitness ==
    /\ WriteReturned /\ wp /\ erase_enabled
    /\ cm.fail = "write" /\ ret.rc = -EIO
    /\ erases # {}

\* C14: every fbw_write on a context that fbw_init accepted runs to
\* completion and returns, provided every driver call and the callback
\* return.
Termination == (pc # "idle" /\ fr.esite # "call") ~> WriteReturned

\* a step of a call of fbw_write: its entry, or a step of the running call
InWriteStep ==
    \/ pc = "idle" /\ pc' \in {"idle", "loop"}
    \/ pc # "idle" /\ fr.esite # "call"

\* a step on which a call of fbw_write returns
WriteReturnStep == InWriteStep /\ pc' = "idle"

\* the call that started at p does not flush and leaves the fill below buf_len
Deferred(p) ==
    /\ p.a.data_ok /\ ~p.a.flush
    /\ p.buf_bytes + p.a.len < ctx.buf_len

\* the call that started at p was admitted, does not flush and brings the
\* fill to exactly buf_len
ExactFill(p) ==
    /\ p.a.data_ok /\ ~p.a.flush
    /\ p.bytes_written + p.buf_bytes + p.a.len <= ctx.available
    /\ p.buf_bytes + p.a.len = ctx.buf_len

\* no step of a deferred call touches the flash or runs the callback
DeferredQuiet ==
    (InWriteStep /\ Deferred(pre')) =>
        /\ flash' = flash
        /\ wp' = wp
        /\ nops' = 0
        /\ commits' = 0
        /\ ctx'.bytes_written = pre'.bytes_written

\* one commit of buf_len bytes at offset + bytes_written has emptied the buffer
OneFullCommit ==
    /\ commits' = 1
    /\ cm'.w_issued /\ cm'.w_len = ctx'.buf_len
    /\ cm'.w_off = ctx'.offset + pre'.bytes_written
    /\ ctx'.buf_bytes = 0

EmptyWriteNoOp ==
    (WriteReturned /\ pre.a.data_ok /\ pre.a.len = 0 /\ ~pre.a.flush) =>
        /\ ret.rc = 0
        /\ nops = 0
        /\ commits = 0
        /\ ctx.bytes_written = pre.bytes_written
        /\ ctx.buf_bytes = pre.buf_bytes

\* a successful call of fbw_write without flush whose len is a positive
\* multiple of buf_len has returned
WholeBuffers ==
    /\ WriteReturned /\ ret.rc = 0 /\ ~pre.a.flush
    /\ ctx.buf_len > 0 /\ pre.a.len > 0
    /\ pre.a.len % ctx.buf_len = 0

\* C17 as stated: such a call has performed exactly len / buf_len commits and
\* leaves buf_bytes = 0, whatever buf_bytes was before the call.
WholeBufferMultiplesAsStated ==
    WholeBuffers =>
        /\ commits = pre.a.len \div ctx.buf_len
        /\ ctx.buf_bytes = 0

\* C17 amended: started with buf_bytes < buf_len, such a call has performed
\* exactly len / buf_len commits and leaves buf_bytes as it was (0 for an
\* empty buffer); started with the full buffer a failed commit left, it has
\* performed one commit more and leaves buf_bytes = 0.
WholeBufferMultiples ==
    WholeBuffers =>
        IF pre.buf_bytes < ctx.buf_len
        THEN /\ commits = pre.a.len \div ctx.buf_len
             /\ ctx.buf_bytes = pre.buf_bytes
        ELSE /\ commits = (pre.a.len \div ctx.buf_len) + 1
             /\ ctx.buf_bytes = 0

\* three buffers of one byte were committed by one call, after an earlier
\* call had sent a buffer
WholeBufferMultiplesWitness ==
    /\ WholeBuffers /\ ctx.buf_len = 1 /\ pre.a.len = 3
    /\ commits = 3 /\ pre.bytes_written = 1 /\ ctx.bytes_written = 4

\* C18: under the erase policy, on a stream that reaches to the end of the
\* device and a driver that succeeds on every offset of the device, the
\* write or flush whose commit ends exactly at offset + available returns 0
\* and advances bytes_written to available.
FillToCapacity ==
    ( /\ WriteReturned /\ erase_enabled /\ faults = 0
      /\ ctx.offset + ctx.available = total_size
      /\ cm.active /\ cm.bw0 + cm.bb0 = ctx.available )
        => (ret.rc = 0 /\ ctx.bytes_written = ctx.available)

\* C19: under the erase policy, every flash erase that a commit issues is on
\* a page that overlaps [offset, offset + available); no commit erases a page
\* that lies entirely at or beyond offset + available.
ErasesInsideStream ==
    (pc = "erasing" /\ fr.esite = "sync") =>
        /\ fr.page.start_offset < ctx.offset + ctx.available
        /\ fr.page.start_offset + fr.page.size > ctx.offset

\* the start of the page whose erase the commit that just failed had asked for
FailedCommitPage ==
    flash_get_page_info_by_offs(
        (WriteAddr(ctx) + ctx.buf_bytes) % WordMod).start_offset

\* C20: under the erase policy, after flash_erase has failed the bookmark
\* does not name the page whose erase failed, be it the erase of a commit or
\* of the caller's fbw_erase, so that a retry erases the page again.
BookmarkTruthful ==
    /\ (WriteReturned /\ cm.fail = "erase" /\ ret.rc = -EIO)
        => ctx.last_erased_page_start_offset # FailedCommitPage
    /\ (EraseReturned /\ ret.rc = -EIO)
        => ctx.last_erased_page_start_offset
               # flash_get_page_info_by_offs(pre.a.off).start_offset

====
